---- MODULE Spec2Model ----
(***************************************************************************)
(* Model of the `mod` shell command of sn0int (src/cmd/mod_cmd.rs): the    *)
(* subcommands list, install, search, reload and update, the per-module    *)
(* update function, and the session state they act on (the engine's        *)
(* in-memory module set, the selected module, the readline module cache    *)
(* and the persisted autoupdate ledger).                                   *)
(***************************************************************************)
EXTENDS Integers, Sequences, FiniteSets, TLC

(***************************************************************************)
(* Bounds of the model.                                                    *)
(***************************************************************************)
\* Versions are opaque values compared by equality only; 1..MaxVersion.
MaxVersion == 2

\* Option::None of `infos.latest`: the registry has no released version.
NoVersion == 0

Versions == 1..MaxVersion

\* Canonical names of the modules that may be installed, in engine order.
Names == <<"a", "b">>

NameSet == {Names[i] : i \in 1..Len(Names)}

\* Source tags (Module::source_equals); a property of the module's script.
SourceOf(n) == IF n = "a" THEN "domains" ELSE "ips"

\* A Module descriptor as this file uses it: canonical(), version(),
\* is_private(), source_equals().
Mod(n, v, p) == [name |-> n, version |-> v, private |-> p, source |-> SourceOf(n)]

\* The names under which a private module may be installed; the other names
\* are those of registry modules.
PrivateNames == {Names[1]}

\* The descriptors a module directory may hold for one name: none or one.
OptMod(n) ==
    {<<>>} \cup {<<Mod(n, v, p)>> : v \in Versions,
                                   p \in IF n \in PrivateNames THEN BOOLEAN ELSE {FALSE}}

\* Every module list the engine may hold (engine iteration order).
ModuleLists == {x \o y : x \in OptMod(Names[1]), y \in OptMod(Names[2])}

VARIABLES
    modules,    \* rl.engine(): the engine's in-memory module list
    selected,   \* rl's selected module: <<>> (None) or <<m>> (Some(m), an owned copy)
    cache,      \* rl's completion cache: the names the line editor completes
    ledger,     \* the persisted AutoUpdater state: names marked outdated
    autoupdate, \* the AutoUpdater loaded by the running command
    pc,         \* position of the running command
    cmd,        \* the subcommand being run
    batch,      \* update: the value of rl.engine().list() the loop iterates
    idx,        \* update: index of the next module of the loop
    result,     \* Result of run(): "ok", "err" or "" while running
    log         \* calls and messages of the running command, in order

vars == <<modules, selected, cache, ledger, autoupdate, pc, cmd, batch, idx, result, log>>

(***************************************************************************)
(* Events of the log.                                                      *)
(***************************************************************************)
Ev(op, n, ok, v, msg) ==
    [op |-> op, name |-> n, ok |-> ok, ver |-> v, msg |-> msg, old |-> NoVersion]

\* term::success("Updated {name}: {installed} -> {latest}")
Notice(m, latest) ==
    [Ev("success", m.name, TRUE, latest, "Updated") EXCEPT !.old = m.version]

\* Names of a module list.
Canonicals(ms) == [i \in 1..Len(ms) |-> ms[i].name]

\* engine().get(name): the module of that canonical name, or an error.
Get(ms, n) ==
    LET hits == {i \in 1..Len(ms) : ms[i].name = n}
    IN  IF hits = {} THEN <<>> ELSE <<ms[CHOOSE i \in hits : TRUE]>>

Init ==
    /\ modules \in ModuleLists
    /\ selected \in {<<>>} \cup {<<modules[i]>> : i \in 1..Len(modules)}
    /\ cache = Canonicals(modules)
    /\ ledger \in SUBSET NameSet
    /\ autoupdate = {}
    /\ pc = "idle"
    /\ cmd = ""
    /\ batch = <<>>
    /\ idx = 0
    /\ result = ""
    /\ log = <<>>

(***************************************************************************)
(* Variants of update() with a plausible slip, used to test the theorems.  *)
(***************************************************************************)
\* Reinstalls without comparing the versions.
update_reinstall(m, qok, latest, iok) ==
    LET q == Ev("query_module", m.name, qok, latest, "")
    IN  IF ~qok
        THEN [ok |-> FALSE, msg |-> "registry error", evs |-> <<q>>]
        ELSE IF latest = NoVersion
        THEN [ok |-> FALSE, msg |-> "Module doesn't have any released versions",
              evs |-> <<q>>]
        ELSE IF ~iok
        THEN [ok |-> FALSE, msg |-> "install error",
              evs |-> <<q, Ev("run_install", m.name, FALSE, latest, "")>>]
        ELSE [ok |-> TRUE, msg |-> "",
              evs |-> <<q, Ev("run_install", m.name, TRUE, latest, ""),
                        Notice(m, latest)>>]

\* Reinstalls only when the registry's version is greater (version ordering).
update_ordered(m, qok, latest, iok) ==
    LET q == Ev("query_module", m.name, qok, latest, "")
    IN  IF ~qok
        THEN [ok |-> FALSE, msg |-> "registry error", evs |-> <<q>>]
        ELSE IF latest = NoVersion
        THEN [ok |-> FALSE, msg |-> "Module doesn't have any released versions",
              evs |-> <<q>>]
        ELSE IF m.version < latest
        THEN IF ~iok
             THEN [ok |-> FALSE, msg |-> "install error",
                   evs |-> <<q, Ev("run_install", m.name, FALSE, latest, "")>>]
             ELSE [ok |-> TRUE, msg |-> "",
                   evs |-> <<q, Ev("run_install", m.name, TRUE, latest, ""),
                             Notice(m, latest)>>]
        ELSE [ok |-> TRUE, msg |-> "", evs |-> <<q>>]

\* Treats a module without released versions as up to date.
update_none_ok(m, qok, latest, iok) ==
    LET q == Ev("query_module", m.name, qok, latest, "")
    IN  IF ~qok
        THEN [ok |-> FALSE, msg |-> "registry error", evs |-> <<q>>]
        ELSE IF latest # NoVersion /\ m.version # latest
        THEN IF ~iok
             THEN [ok |-> FALSE, msg |-> "install error",
                   evs |-> <<q, Ev("run_install", m.name, FALSE, latest, "")>>]
             ELSE [ok |-> TRUE, msg |-> "",
                   evs |-> <<q, Ev("run_install", m.name, TRUE, latest, ""),
                             Notice(m, latest)>>]
        ELSE [ok |-> TRUE, msg |-> "", evs |-> <<q>>]

\* Announces the update before the install has run.
update_early_notice(m, qok, latest, iok) ==
    LET q == Ev("query_module", m.name, qok, latest, "")
    IN  IF ~qok
        THEN [ok |-> FALSE, msg |-> "registry error", evs |-> <<q>>]
        ELSE IF latest = NoVersion
        THEN [ok |-> FALSE, msg |-> "Module doesn't have any released versions",
              evs |-> <<q>>]
        ELSE IF m.version # latest
        THEN IF ~iok
             THEN [ok |-> FALSE, msg |-> "install error",
                   evs |-> <<q, Notice(m, latest),
                             Ev("run_install", m.name, FALSE, latest, "")>>]
             ELSE [ok |-> TRUE, msg |-> "",
                   evs |-> <<q, Notice(m, latest),
                             Ev("run_install", m.name, TRUE, latest, "")>>]
        ELSE [ok |-> TRUE, msg |-> "", evs |-> <<q>>]

\* Starts the install without waiting for the registry's answer: the install
\* is under way before the query has completed.
update_install_first(m, qok, latest, iok) ==
    LET q == Ev("query_module", m.name, qok, latest, "")
    IN  IF ~qok
        THEN [ok |-> FALSE, msg |-> "registry error", evs |-> <<q>>]
        ELSE IF latest = NoVersion
        THEN [ok |-> FALSE, msg |-> "Module doesn't have any released versions",
              evs |-> <<q>>]
        ELSE IF m.version # latest
        THEN IF ~iok
             THEN [ok |-> FALSE, msg |-> "install error",
                   evs |-> <<Ev("run_install", m.name, FALSE, latest, ""), q>>]
             ELSE [ok |-> TRUE, msg |-> "",
                   evs |-> <<Ev("run_install", m.name, TRUE, latest, ""), q,
                             Notice(m, latest)>>]
        ELSE [ok |-> TRUE, msg |-> "", evs |-> <<q>>]

(***************************************************************************)
(* fn update(client, config, module) -> Result<()>                         *)
(* qok: client.query_module succeeded; latest: infos.latest (NoVersion for *)
(* None); iok: registry::run_install succeeded.                            *)
(***************************************************************************)
update(m, qok, latest, iok) ==
    LET q == Ev("query_module", m.name, qok, latest, "")
    IN  IF ~qok
        THEN [ok |-> FALSE, msg |-> "registry error", evs |-> <<q>>]
        ELSE IF latest = NoVersion
        THEN [ok |-> FALSE, msg |-> "Module doesn't have any released versions",
              evs |-> <<q>>]
        ELSE IF m.version # latest
        THEN IF ~iok
             THEN [ok |-> FALSE, msg |-> "install error",
                   evs |-> <<q, Ev("run_install", m.name, FALSE, latest, "")>>]
             ELSE [ok |-> TRUE, msg |-> "",
                   evs |-> <<q, Ev("run_install", m.name, TRUE, latest, ""),
                             Notice(m, latest)>>]
        ELSE [ok |-> TRUE, msg |-> "", evs |-> <<q>>]

\* AutoUpdater::updated(name): the module is no longer marked outdated.
updated(au, n) == au \ {n}

\* AutoUpdater::is_outdated(name)
is_outdated(au, n) == n \in au

\* Variant: the private check is missing.
is_private_never(m) == FALSE

\* `if module.is_private() { debug!(..); continue; }`
is_private(m) == m.private

\* Variant: the ledger is saved in every iteration.
LoopBody_save(m, au, qok, latest, iok) ==
    IF is_private(m)
    THEN [au |-> au, ok |-> TRUE, evs |-> <<Ev("skip", m.name, TRUE, NoVersion, "private")>>]
    ELSE LET r == update(m, qok, latest, iok)
             call == <<Ev("update", m.name, r.ok, m.version, r.msg)>>
         IN  IF ~r.ok
             THEN [au |-> au, ok |-> FALSE,
                   evs |-> call \o r.evs
                           \o <<Ev("error", m.name, FALSE, NoVersion, r.msg)>>]
             ELSE [au |-> updated(au, m.name), ok |-> TRUE,
                   evs |-> call \o r.evs
                           \o <<Ev("updated", m.name, TRUE, NoVersion, ""),
                                Ev("save", "", TRUE, NoVersion, "")>>]

\* Variant: the module is marked whether update() failed or not.
LoopBody_markall(m, au, qok, latest, iok) ==
    IF is_private(m)
    THEN [au |-> au, ok |-> TRUE, evs |-> <<Ev("skip", m.name, TRUE, NoVersion, "private")>>]
    ELSE LET r == update(m, qok, latest, iok)
             call == <<Ev("update", m.name, r.ok, m.version, r.msg)>>
         IN  IF ~r.ok
             THEN [au |-> updated(au, m.name), ok |-> FALSE,
                   evs |-> call \o r.evs
                           \o <<Ev("error", m.name, FALSE, NoVersion, r.msg)>>]
             ELSE [au |-> updated(au, m.name), ok |-> TRUE,
                   evs |-> call \o r.evs
                           \o <<Ev("updated", m.name, TRUE, NoVersion, "")>>]

\* The body of the update loop for one module: what it logs and the
\* AutoUpdater it leaves.
LoopBody(m, au, qok, latest, iok) ==
    IF is_private(m)
    THEN [au |-> au, ok |-> TRUE, evs |-> <<Ev("skip", m.name, TRUE, NoVersion, "private")>>]
    ELSE LET r == update(m, qok, latest, iok)
             call == <<Ev("update", m.name, r.ok, m.version, r.msg)>>
         IN  IF ~r.ok
             THEN [au |-> au, ok |-> FALSE,
                   evs |-> call \o r.evs
                           \o <<Ev("error", m.name, FALSE, NoVersion, r.msg)>>]
             ELSE [au |-> updated(au, m.name), ok |-> TRUE,
                   evs |-> call \o r.evs
                           \o <<Ev("updated", m.name, TRUE, NoVersion, "")>>]

\* Variant: the first failing module ends the loop (`update(..)?`).
LoopNext_abort(i, ok) == IF ok THEN i + 1 ELSE Len(batch) + 1

\* The loop goes on with the next module whatever the body's outcome.
LoopNext(i, ok) == i + 1

(***************************************************************************)
(* SubCommand::Reload.  rok: engine.reload_modules() succeeded; newms: the *)
(* module list the engine holds after the call.                            *)
(***************************************************************************)
\* The module lists reload_modules may leave: on success whatever the module
\* directories hold now; on failure the old set or the discarded (empty) one.
ReloadOutcomes(ms) ==
    {<<TRUE, n>> : n \in ModuleLists} \cup {<<FALSE, n>> : n \in {ms, <<>>}}

\* Variant: re-selects the module object held before the reload.
reload_stale(sel, cch, rok, newms) ==
    LET current == IF sel = <<>> THEN <<>> ELSE <<sel[1].name>>
        take == Ev("take_module", IF sel = <<>> THEN "" ELSE sel[1].name,
                   sel # <<>>, IF sel = <<>> THEN NoVersion ELSE sel[1].version, "")
        found == IF current = <<>> THEN <<>> ELSE Get(newms, current[1])
    IN  IF ~rok
        THEN [ok |-> FALSE, modules |-> newms, selected |-> <<>>, cache |-> cch,
              evs |-> <<take, Ev("reload_modules", "", FALSE, NoVersion, "")>>]
        ELSE [ok |-> TRUE, modules |-> newms,
              selected |-> IF found = <<>> THEN <<>> ELSE sel,
              cache |-> Canonicals(newms),
              evs |-> <<take, Ev("reload_modules", "", TRUE, NoVersion, ""),
                        Ev("reload_module_cache", "", TRUE, NoVersion, "")>>
                      \o (IF current = <<>> THEN <<>>
                          ELSE <<Ev("get", current[1], found # <<>>, NoVersion, "")>>)
                      \o (IF found = <<>> THEN <<>>
                          ELSE <<Ev("set_module", sel[1].name, TRUE,
                                    sel[1].version, "")>>)]

\* Variant: reads the selection without taking it (rl.module() for
\* rl.take_module()), so a failed reload_modules leaves it in place.
reload_peek(sel, cch, rok, newms) ==
    LET current == IF sel = <<>> THEN <<>> ELSE <<sel[1].name>>
        take == Ev("take_module", IF sel = <<>> THEN "" ELSE sel[1].name,
                   sel # <<>>, IF sel = <<>> THEN NoVersion ELSE sel[1].version, "")
        found == IF current = <<>> THEN <<>> ELSE Get(newms, current[1])
    IN  IF ~rok
        THEN [ok |-> FALSE, modules |-> newms, selected |-> sel, cache |-> cch,
              evs |-> <<take, Ev("reload_modules", "", FALSE, NoVersion, "")>>]
        ELSE [ok |-> TRUE, modules |-> newms, selected |-> found,
              cache |-> Canonicals(newms),
              evs |-> <<take, Ev("reload_modules", "", TRUE, NoVersion, ""),
                        Ev("reload_module_cache", "", TRUE, NoVersion, "")>>
                      \o (IF current = <<>> THEN <<>>
                          ELSE <<Ev("get", current[1], found # <<>>, NoVersion, "")>>)
                      \o (IF found = <<>> THEN <<>>
                          ELSE <<Ev("set_module", found[1].name, TRUE,
                                    found[1].version, "")>>)]

\* Variant: the cache is reloaded only when the module is re-selected.
reload_cache_late(sel, cch, rok, newms) ==
    LET current == IF sel = <<>> THEN <<>> ELSE <<sel[1].name>>
        take == Ev("take_module", IF sel = <<>> THEN "" ELSE sel[1].name,
                   sel # <<>>, IF sel = <<>> THEN NoVersion ELSE sel[1].version, "")
        found == IF current = <<>> THEN <<>> ELSE Get(newms, current[1])
    IN  IF ~rok
        THEN [ok |-> FALSE, modules |-> newms, selected |-> <<>>, cache |-> cch,
              evs |-> <<take, Ev("reload_modules", "", FALSE, NoVersion, "")>>]
        ELSE [ok |-> TRUE, modules |-> newms, selected |-> found,
              cache |-> IF found = <<>> THEN cch ELSE Canonicals(newms),
              evs |-> <<take, Ev("reload_modules", "", TRUE, NoVersion, "")>>
                      \o (IF current = <<>> THEN <<>>
                          ELSE <<Ev("get", current[1], found # <<>>, NoVersion, "")>>)
                      \o (IF found = <<>> THEN <<>>
                          ELSE <<Ev("reload_module_cache", "", TRUE, NoVersion, ""),
                                 Ev("set_module", found[1].name, TRUE,
                                    found[1].version, "")>>)]

\* Variant: the cache is reloaded whether reload_modules succeeded or not.
reload_cache_always(sel, cch, rok, newms) ==
    LET current == IF sel = <<>> THEN <<>> ELSE <<sel[1].name>>
        take == Ev("take_module", IF sel = <<>> THEN "" ELSE sel[1].name,
                   sel # <<>>, IF sel = <<>> THEN NoVersion ELSE sel[1].version, "")
        found == IF current = <<>> THEN <<>> ELSE Get(newms, current[1])
    IN  IF ~rok
        THEN [ok |-> FALSE, modules |-> newms, selected |-> <<>>,
              cache |-> Canonicals(newms),
              evs |-> <<take, Ev("reload_modules", "", FALSE, NoVersion, ""),
                        Ev("reload_module_cache", "", TRUE, NoVersion, "")>>]
        ELSE [ok |-> TRUE, modules |-> newms, selected |-> found,
              cache |-> Canonicals(newms),
              evs |-> <<take, Ev("reload_modules", "", TRUE, NoVersion, ""),
                        Ev("reload_module_cache", "", TRUE, NoVersion, "")>>
                      \o (IF current = <<>> THEN <<>>
                          ELSE <<Ev("get", current[1], found # <<>>, NoVersion, "")>>)
                      \o (IF found = <<>> THEN <<>>
                          ELSE <<Ev("set_module", found[1].name, TRUE,
                                    found[1].version, "")>>)]

reload(sel, cch, rok, newms) ==
    LET current == IF sel = <<>> THEN <<>> ELSE <<sel[1].name>>
        take == Ev("take_module", IF sel = <<>> THEN "" ELSE sel[1].name,
                   sel # <<>>, IF sel = <<>> THEN NoVersion ELSE sel[1].version, "")
        found == IF current = <<>> THEN <<>> ELSE Get(newms, current[1])
    IN  IF ~rok
        THEN [ok |-> FALSE, modules |-> newms, selected |-> <<>>, cache |-> cch,
              evs |-> <<take, Ev("reload_modules", "", FALSE, NoVersion, "")>>]
        ELSE [ok |-> TRUE, modules |-> newms, selected |-> found,
              cache |-> Canonicals(newms),
              evs |-> <<take, Ev("reload_modules", "", TRUE, NoVersion, ""),
                        Ev("reload_module_cache", "", TRUE, NoVersion, "")>>
                      \o (IF current = <<>> THEN <<>>
                          ELSE <<Ev("get", current[1], found # <<>>, NoVersion, "")>>)
                      \o (IF found = <<>> THEN <<>>
                          ELSE <<Ev("set_module", found[1].name, TRUE,
                                    found[1].version, "")>>)]

\* Variant: the outcome of the reload is dropped (`let _ = ..` for `..?`).
Propagate_swallow(ok) == "ok"

\* `rl.engine_mut().reload_modules()?` and, in install and update,
\* `run(rl, ..)?`: an error is returned to the caller, else run() ends Ok(()).
Propagate(ok) == IF ok THEN "ok" ELSE "err"

\* The Reload arm of run(), entered from the prompt or from install/update.
DoReload ==
    \E o \in ReloadOutcomes(modules) :
        LET r == reload(selected, cache, o[1], o[2])
        IN  /\ modules' = r.modules
            /\ selected' = r.selected
            /\ cache' = r.cache
            /\ log' = log \o r.evs
            /\ result' = Propagate(r.ok)
            /\ pc' = "done"
            /\ UNCHANGED <<ledger, autoupdate, batch, idx>>

\* `mod reload`
Reload ==
    /\ pc = "idle"
    /\ cmd' = "reload"
    /\ DoReload

\* Variant: install and update ask the engine to reload and refresh the
\* cache themselves, without the Reload arm's handling of the selection.
TriggerReload_bare ==
    /\ pc = "reload"
    /\ UNCHANGED cmd
    /\ \E o \in ReloadOutcomes(modules) :
          /\ modules' = o[2]
          /\ cache' = IF o[1] THEN Canonicals(o[2]) ELSE cache
          /\ log' = log \o <<Ev("reload_modules", "", o[1], NoVersion, "")>>
                        \o (IF o[1] THEN <<Ev("reload_module_cache", "", TRUE, NoVersion, "")>>
                            ELSE <<>>)
          /\ result' = Propagate(o[1])
          /\ pc' = "done"
    /\ UNCHANGED <<selected, ledger, autoupdate, batch, idx>>

\* `run(rl, &["mod", "reload"])?` at the end of install and update.
TriggerReload ==
    /\ pc = "reload"
    /\ UNCHANGED cmd
    /\ DoReload

(***************************************************************************)
(* Args::from_iter_safe(args)? fails.                                      *)
(***************************************************************************)
\* Variant: the arguments are parsed after the selection was taken.
ParseError_late ==
    /\ pc = "idle"
    /\ cmd' = "usage"
    /\ pc' = "done"
    /\ result' = "err"
    /\ selected' = <<>>
    /\ log' = <<>>
    /\ UNCHANGED <<modules, cache, ledger, autoupdate, batch, idx>>

ParseError ==
    /\ pc = "idle"
    /\ cmd' = "usage"
    /\ pc' = "done"
    /\ result' = "err"
    /\ log' = <<>>
    /\ UNCHANGED <<modules, selected, cache, ledger, autoupdate, batch, idx>>

(***************************************************************************)
(* SubCommand::List.  src: --source (<<>> when absent); outd: --outdated.  *)
(***************************************************************************)
Sources == {SourceOf(Names[i]) : i \in 1..Len(Names)} \cup {"urls"}

\* Variant: --outdated is tested before --source and ends the iteration's
\* filtering, so an outdated module of another source is displayed.
RECURSIVE list_outdated_first(_, _, _, _)
list_outdated_first(ms, au, src, outd) ==
    IF ms = <<>> THEN <<>>
    ELSE LET module == Head(ms)
             rest == list_outdated_first(Tail(ms), au, src, outd)
             line == Ev("println", module.name, is_outdated(au, module.name),
                        module.version, "")
         IN  IF outd /\ is_outdated(au, module.name)
             THEN <<line>> \o rest
             ELSE IF src # <<>> /\ module.source # src[1]
             THEN rest
             ELSE IF outd
             THEN rest
             ELSE <<line>> \o rest

\* The loop of the List arm: the header lines it prints, in order.  The ok
\* field of a line tells whether it carries the [outdated] marker.
RECURSIVE list(_, _, _, _)
list(ms, au, src, outd) ==
    IF ms = <<>> THEN <<>>
    ELSE LET module == Head(ms)
             rest == list(Tail(ms), au, src, outd)
         IN  IF src # <<>> /\ module.source # src[1]
             THEN rest
             ELSE IF is_outdated(au, module.name)
             THEN <<Ev("println", module.name, TRUE, module.version, "")>> \o rest
             ELSE IF outd
             THEN rest
             ELSE <<Ev("println", module.name, FALSE, module.version, "")>> \o rest

\* The arguments of `mod list`, kept in the log: name is the --source value
\* (msg tells whether one was given), ok is --outdated.
ListArgs(src, outd) ==
    Ev("list", IF src = <<>> THEN "" ELSE src[1], outd, NoVersion,
       IF src = <<>> THEN "" ELSE "source")

\* Variant: list drops the ledger entries of modules that are not installed
\* and saves the ledger.
List_prune ==
    /\ pc = "idle"
    /\ cmd' = "list"
    /\ pc' = "done"
    /\ \E lok \in BOOLEAN, src \in {<<>>} \cup {<<t>> : t \in Sources}, outd \in BOOLEAN :
          IF ~lok
          THEN /\ log' = <<ListArgs(src, outd), Ev("load", "", FALSE, NoVersion, "")>>
               /\ result' = "err"
               /\ UNCHANGED <<autoupdate, ledger>>
          ELSE /\ autoupdate' = ledger \cap {modules[k].name : k \in DOMAIN modules}
               /\ ledger' = autoupdate'
               /\ log' = <<ListArgs(src, outd), Ev("load", "", TRUE, NoVersion, "")>>
                          \o list(modules, autoupdate', src, outd)
               /\ result' = "ok"
    /\ UNCHANGED <<modules, selected, cache, batch, idx>>

List ==
    /\ pc = "idle"
    /\ cmd' = "list"
    /\ pc' = "done"
    /\ \E lok \in BOOLEAN, src \in {<<>>} \cup {<<t>> : t \in Sources}, outd \in BOOLEAN :
          IF ~lok
          THEN /\ log' = <<ListArgs(src, outd), Ev("load", "", FALSE, NoVersion, "")>>
               /\ result' = "err"
               /\ UNCHANGED autoupdate
          ELSE /\ autoupdate' = ledger
               /\ log' = <<ListArgs(src, outd), Ev("load", "", TRUE, NoVersion, "")>>
                          \o list(modules, autoupdate', src, outd)
               /\ result' = "ok"
    /\ UNCHANGED <<modules, selected, cache, ledger, batch, idx>>

(***************************************************************************)
(* SubCommand::Install.  n: the module id asked for; iok: run_install ok.  *)
(***************************************************************************)
Install ==
    /\ pc = "idle"
    /\ cmd' = "install"
    /\ \E n \in NameSet, iok \in BOOLEAN :
          /\ log' = <<Ev("run_install", n, iok, NoVersion, "")>>
          /\ pc' = IF iok THEN "reload" ELSE "done"
          /\ result' = IF iok THEN "" ELSE "err"
    /\ UNCHANGED <<modules, selected, cache, ledger, autoupdate, batch, idx>>

(***************************************************************************)
(* SubCommand::Search.                                                     *)
(***************************************************************************)
Search ==
    /\ pc = "idle"
    /\ cmd' = "search"
    /\ pc' = "done"
    /\ \E sok \in BOOLEAN :
          /\ log' = <<Ev("run_search", "", sok, NoVersion, "")>>
          /\ result' = IF sok THEN "ok" ELSE "err"
    /\ UNCHANGED <<modules, selected, cache, ledger, autoupdate, batch, idx>>

(***************************************************************************)
(* SubCommand::Update.                                                     *)
(***************************************************************************)
\* Client::new(&config)?; AutoUpdater::load()?; rl.engine().list()
UpdateStart ==
    /\ pc = "idle"
    /\ cmd' = "update"
    /\ \E cok \in BOOLEAN, lok \in BOOLEAN :
          IF ~cok
          THEN /\ log' = <<Ev("client_new", "", FALSE, NoVersion, "")>>
               /\ pc' = "done"
               /\ result' = "err"
               /\ UNCHANGED <<autoupdate, batch, idx>>
          ELSE IF ~lok
          THEN /\ log' = <<Ev("client_new", "", TRUE, NoVersion, ""),
                            Ev("load", "", FALSE, NoVersion, "")>>
               /\ pc' = "done"
               /\ result' = "err"
               /\ UNCHANGED <<autoupdate, batch, idx>>
          ELSE /\ log' = <<Ev("client_new", "", TRUE, NoVersion, ""),
                            Ev("load", "", TRUE, NoVersion, "")>>
               /\ autoupdate' = ledger
               /\ batch' = modules
               /\ idx' = 1
               /\ pc' = "update_loop"
               /\ result' = ""
    /\ UNCHANGED <<modules, selected, cache, ledger>>

\* One iteration of `for module in rl.engine().list()`.
UpdateModule ==
    /\ pc = "update_loop"
    /\ idx <= Len(batch)
    /\ \E qok \in BOOLEAN, latest \in {NoVersion} \cup Versions, iok \in BOOLEAN :
          LET b == LoopBody(batch[idx], autoupdate, qok, latest, iok)
          IN  /\ autoupdate' = b.au
              /\ log' = log \o b.evs
              /\ idx' = LoopNext(idx, b.ok)
    /\ UNCHANGED <<modules, selected, cache, ledger, pc, cmd, batch, result>>

\* Variant: the reload is triggered only when no module failed.
AfterSave_clean(sok, lg) ==
    IF sok /\ \A i \in DOMAIN lg : lg[i].op # "error" THEN "reload" ELSE "done"

\* Variant: the outcome of the save is not looked at.
AfterSave_ignore(sok, lg) == "reload"

\* Where run() goes after `autoupdate.save()?`: a failed save returns the
\* error, a successful one goes on to the reload.
AfterSave(sok, lg) == IF sok THEN "reload" ELSE "done"

\* After the loop: `autoupdate.save()?`, then the reload is triggered.
UpdateSave ==
    /\ pc = "update_loop"
    /\ idx > Len(batch)
    /\ \E sok \in BOOLEAN :
          /\ log' = Append(log, Ev("save", "", sok, NoVersion, ""))
          /\ ledger' = IF sok THEN autoupdate ELSE ledger
          /\ pc' = AfterSave(sok, log)
          /\ result' = IF pc' = "reload" THEN "" ELSE IF sok THEN "ok" ELSE "err"
    /\ UNCHANGED <<modules, selected, cache, autoupdate, cmd, batch, idx>>

\* run() returns to the shell, which reads the next command.
Return ==
    /\ pc = "done"
    /\ pc' = "idle"
    /\ cmd' = ""
    /\ result' = ""
    /\ log' = <<>>
    /\ autoupdate' = {}
    /\ batch' = <<>>
    /\ idx' = 0
    /\ UNCHANGED <<modules, selected, cache, ledger>>

Next ==
    \/ ParseError
    \/ List
    \/ Install
    \/ Search
    \/ Reload
    \/ UpdateStart
    \/ UpdateModule
    \/ UpdateSave
    \/ TriggerReload
    \/ Return

Spec == Init /\ [][Next]_vars

(***************************************************************************)
(* Reading the log.                                                        *)
(***************************************************************************)
EvsOf(op) == SelectSeq(log, LAMBDA e : e.op = op)

NamesOf(evs) == [i \in 1..Len(evs) |-> evs[i].name]

Has(op, n) == \E i \in DOMAIN log : log[i].op = op /\ log[i].name = n

HasOk(op, n) == \E i \in DOMAIN log : log[i].op = op /\ log[i].name = n /\ log[i].ok

\* The update command got past Client::new and AutoUpdater::load.
InBatch == cmd = "update" /\ HasOk("load", "")

\* The modules of the batch the loop has dealt with so far.
Processed == IF pc = "update_loop" THEN SubSeq(batch, 1, idx - 1) ELSE batch

\* The loop is over: the save was attempted.
LoopOver == InBatch /\ Has("save", "")

\* For a module of the batch: the registry answered and its latest version
\* is the installed one.
UpToDate(m) ==
    \E i \in DOMAIN log :
        /\ log[i].op = "query_module" /\ log[i].name = m.name
        /\ log[i].ok /\ log[i].ver = m.version

\* The per-module operations of the log that name n.
ModuleOps == {"update", "query_module", "run_install", "success", "error", "updated"}

\* The operations of the loop body, the skip of a private module included.
LoopOps == {"update", "query_module", "run_install", "success", "error", "updated", "skip"}

(***************************************************************************)
(* C1: in the update command every non-private module of the engine's list *)
(* is passed to update() exactly once, in list order, whatever the outcome *)
(* of the modules before it: while the loop runs the calls made are those  *)
(* of the non-private modules already iterated, and once the loop is over  *)
(* they are those of all non-private modules of the list.                  *)
(***************************************************************************)
C1_EveryModulePassedOnce ==
    InBatch =>
        NamesOf(EvsOf("update"))
            = NamesOf(SelectSeq(Processed, LAMBDA m : ~m.private))

\* The command has finished; the first module failed on install and the
\* second one was still passed to update().
C1_Witness ==
    /\ pc = "done" /\ cmd = "update" /\ Len(batch) = 2
    /\ \E i, j \in DOMAIN log :
          /\ i < j
          /\ log[i].op = "update" /\ ~log[i].ok /\ log[i].msg = "install error"
          /\ log[i].name = batch[1].name
          /\ log[j].op = "update" /\ log[j].name = batch[2].name

(***************************************************************************)
(* C2 (as stated): for every module whose installed version equals the     *)
(* registry's latest version, update makes no install call and leaves its  *)
(* ledger entry as it was loaded.                                          *)
(***************************************************************************)
C2_NoLedgerChangeWhenUpToDate ==
    (InBatch /\ pc = "update_loop") =>
        \A i \in 1..(idx - 1) :
            (~batch[i].private /\ UpToDate(batch[i])) =>
                /\ ~Has("run_install", batch[i].name)
                /\ (batch[i].name \in autoupdate) = (batch[i].name \in ledger)

(***************************************************************************)
(* C2 (amended): for every module whose installed version equals the       *)
(* registry's latest version, update makes no install call, and the only   *)
(* change to its ledger entry is that its outdated mark is cleared; the    *)
(* modules marked no-longer-outdated during the pass are those reinstalled *)
(* or found up to date, and no mark is ever set.                           *)
(***************************************************************************)
C2_UpToDateClearsMarkOnly ==
    (InBatch /\ pc = "update_loop") =>
        /\ \A i \in 1..(idx - 1) :
              (~batch[i].private /\ UpToDate(batch[i])) =>
                  /\ ~Has("run_install", batch[i].name)
                  /\ batch[i].name \notin autoupdate
        /\ autoupdate \subseteq ledger
        /\ \A n \in ledger \ autoupdate :
              \E i \in 1..(idx - 1) :
                  /\ batch[i].name = n
                  /\ (HasOk("run_install", n) \/ UpToDate(batch[i]))

\* An up-to-date module that the loaded ledger marks outdated has been
\* processed: no install, and its mark is gone.
C2_Witness ==
    /\ InBatch /\ pc = "update_loop"
    /\ \E i \in 1..(idx - 1) :
          /\ ~batch[i].private /\ UpToDate(batch[i])
          /\ batch[i].name \in ledger
          /\ batch[i].name \notin autoupdate
          /\ ~Has("run_install", batch[i].name)

(***************************************************************************)
(* C3: for a non-private module whose registry query succeeded, update()   *)
(* calls run_install if and only if a latest version is present and it     *)
(* differs from the installed one; no ordering of versions plays a part.   *)
(***************************************************************************)
C3_InstallIffDifferent ==
    cmd = "update" =>
        \A i \in DOMAIN log :
            (log[i].op = "query_module" /\ log[i].ok) =>
                \A k \in DOMAIN batch :
                    batch[k].name = log[i].name =>
                        (Has("run_install", log[i].name)
                            <=> (log[i].ver # NoVersion
                                 /\ log[i].ver # batch[k].version))

\* A module was reinstalled although the registry's version is lower.
C3_Witness ==
    /\ cmd = "update"
    /\ \E i \in DOMAIN log, k \in DOMAIN batch :
          /\ log[i].op = "run_install" /\ log[i].name = batch[k].name
          /\ log[i].ver # NoVersion /\ log[i].ver < batch[k].version

(***************************************************************************)
(* C4: for every non-private module for which the registry reports no      *)
(* latest version, update reports exactly one failure for it, with the     *)
(* reason "Module doesn't have any released versions", makes no install    *)
(* call and no updated() call for it, leaves its ledger entry as loaded,   *)
(* and the loop still reaches every module after it.                       *)
(***************************************************************************)
NoRelease(n) ==
    \E i \in DOMAIN log :
        /\ log[i].op = "query_module" /\ log[i].name = n
        /\ log[i].ok /\ log[i].ver = NoVersion

C4_NoReleaseIsReportedFailure ==
    cmd = "update" =>
        \A k \in DOMAIN batch :
            NoRelease(batch[k].name) =>
                LET n == batch[k].name
                    errs == SelectSeq(log, LAMBDA e : e.op = "error" /\ e.name = n)
                IN  /\ Len(errs) = 1
                    /\ errs[1].msg = "Module doesn't have any released versions"
                    /\ ~Has("run_install", n)
                    /\ ~Has("updated", n)
                    /\ ~Has("success", n)
                    /\ pc = "update_loop" => ((n \in autoupdate) = (n \in ledger))
                    /\ LoopOver =>
                          \A j \in (k + 1)..Len(batch) :
                              Has("skip", batch[j].name) \/ Has("update", batch[j].name)

\* The first module has no released version and stays marked outdated; the
\* second one was passed to update() and the ledger was saved.
C4_Witness ==
    /\ LoopOver /\ Len(batch) = 2
    /\ NoRelease(batch[1].name)
    /\ batch[1].name \in ledger
    /\ Has("update", batch[2].name)
    /\ HasOk("save", "")

(***************************************************************************)
(* C5: a private module is never passed to update(): the log of an update  *)
(* command holds no call, registry query, install, failure or success      *)
(* message and no updated() call for it, and its ledger entry stays as     *)
(* loaded.                                                                 *)
(***************************************************************************)
C5_PrivateNeverUpdated ==
    cmd = "update" =>
        \A k \in DOMAIN batch :
            batch[k].private =>
                /\ \A op \in ModuleOps : ~Has(op, batch[k].name)
                /\ pc = "update_loop" =>
                      ((batch[k].name \in autoupdate) = (batch[k].name \in ledger))

\* A private module marked outdated was iterated (and skipped) and the loop
\* went on to update a public one.
C5_Witness ==
    /\ InBatch /\ Len(batch) = 2
    /\ batch[1].private /\ batch[1].name \in autoupdate
    /\ Has("skip", batch[1].name)
    /\ HasOk("run_install", batch[2].name)

(***************************************************************************)
(* C6: an update command that processes the batch saves the ledger exactly *)
(* once, after the last module: no save while the loop runs, and once the  *)
(* loop is left exactly one save, which follows every per-module operation *)
(* of every module of the list, whatever the outcomes.  (A command that    *)
(* fails before the batch, on Client::new or on the ledger load, makes no  *)
(* save.)                                                                  *)
(***************************************************************************)
C6_SaveOnceAfterBatch ==
    cmd = "update" =>
        LET saves == {i \in DOMAIN log : log[i].op = "save"}
        IN  IF ~InBatch \/ pc = "update_loop"
            THEN saves = {}
            ELSE /\ Cardinality(saves) = 1
                 /\ \A k \in DOMAIN batch :
                       Has("skip", batch[k].name) \/ Has("update", batch[k].name)
                 /\ \A s \in saves :
                       \A i \in s..Len(log) : log[i].op \notin LoopOps

\* Two modules, one failed and one reinstalled, and the command is over.
C6_Witness ==
    /\ pc = "done" /\ InBatch /\ Len(batch) = 2
    /\ \E i \in DOMAIN log : log[i].op = "error"
    /\ \E i \in DOMAIN log : log[i].op = "run_install" /\ log[i].ok
    /\ Cardinality({i \in DOMAIN log : log[i].op = "save"}) = 1

(***************************************************************************)
(* C7 (as stated): every update command in which at least one module was   *)
(* reinstalled is followed by a reload.                                    *)
(***************************************************************************)
ReloadTriggered == \E i \in DOMAIN log : log[i].op = "take_module"

C7_ReloadAfterEveryUpdate ==
    (pc = "done" /\ cmd = "update"
        /\ \E i \in DOMAIN log : log[i].op = "run_install" /\ log[i].ok)
    => ReloadTriggered

(***************************************************************************)
(* C7 (amended): after an update command whose ledger save succeeded, a    *)
(* reload is triggered whether every module succeeded or some failed; when *)
(* the save fails the command returns the error without a reload.          *)
(***************************************************************************)
C7_ReloadAfterSavedUpdate ==
    (pc = "done" /\ cmd = "update") =>
        IF HasOk("save", "")
        THEN \E s \in 1..(Len(log) - 1) :
                 log[s].op = "save" /\ log[s + 1].op = "take_module"
        ELSE ~ReloadTriggered /\ result = "err"

\* A module failed, another was reinstalled, the save succeeded and the
\* reload ran.
C7_Witness ==
    /\ pc = "done" /\ cmd = "update"
    /\ \E i \in DOMAIN log : log[i].op = "error"
    /\ \E i \in DOMAIN log : log[i].op = "run_install" /\ log[i].ok
    /\ HasOk("save", "")
    /\ HasOk("reload_modules", "")

(***************************************************************************)
(* C8: after a successful reload, if a module was selected and the rebuilt *)
(* set holds a module of the same canonical name, that module of the new   *)
(* set is selected; if it holds none, nothing is selected; if nothing was  *)
(* selected before, nothing is selected.                                   *)
(***************************************************************************)
C8_ReloadMapsSelection ==
    (pc = "done" /\ HasOk("reload_modules", "")) =>
        \A t \in DOMAIN log :
            log[t].op = "take_module" =>
                LET same == {k \in DOMAIN modules : modules[k].name = log[t].name}
                IN  /\ (log[t].ok /\ same # {}) =>
                          \E k \in same : selected = <<modules[k]>>
                    /\ (log[t].ok /\ same = {}) => selected = <<>>
                    /\ (~log[t].ok) => selected = <<>>

\* The selected module came back from the reload with another version.
C8_Witness ==
    /\ HasOk("reload_modules", "")
    /\ \E t \in DOMAIN log :
          /\ log[t].op = "take_module" /\ log[t].ok
          /\ selected # <<>>
          /\ selected[1].name = log[t].name
          /\ selected[1].version # log[t].ver

(***************************************************************************)
(* C9: in every reachable state the selection is empty or is a module of   *)
(* the engine's current module list.                                       *)
(***************************************************************************)
C9_SelectionIsLive ==
    selected = <<>> \/ \E k \in DOMAIN modules : modules[k] = selected[1]

\* A reload, failed or not, has discarded the set the selected module was
\* part of: the engine no longer holds that module as it was.
C9_Witness ==
    /\ pc = "done"
    /\ \E t \in DOMAIN log :
          /\ log[t].op = "take_module" /\ log[t].ok
          /\ \A k \in DOMAIN modules :
                ~(modules[k].name = log[t].name /\ modules[k].version = log[t].ver)
    /\ Has("reload_modules", "")

(***************************************************************************)
(* C10: after every successful reload_modules the module cache is reloaded *)
(* as the very next step, before any re-selection and also when the        *)
(* re-selection finds no module; the cache then lists the new module set.  *)
(***************************************************************************)
C10_CacheInvalidated ==
    \A i \in DOMAIN log :
        (log[i].op = "reload_modules" /\ log[i].ok) =>
            /\ i < Len(log)
            /\ log[i + 1].op = "reload_module_cache"
            /\ cache = [k \in DOMAIN modules |-> modules[k].name]

\* The reload succeeded, the module selected before is gone, and the set of
\* names changed.
C10_Witness ==
    /\ HasOk("reload_modules", "")
    /\ \E i \in DOMAIN log : log[i].op = "get" /\ ~log[i].ok
    /\ selected = <<>>
    /\ Len(modules) = 1

(***************************************************************************)
(* C11: for every module list, ledger and filter combination, list prints, *)
(* in engine order, exactly the modules that pass the filters asked for    *)
(* (--outdated: marked outdated in the ledger; --source S: source tag S;   *)
(* both: both), and a printed module carries the [outdated] marker if and  *)
(* only if the ledger marks it outdated.                                   *)
(***************************************************************************)
C11_ListShowsFiltered ==
    (cmd = "list" /\ pc = "done" /\ result = "ok") =>
        LET a == log[1]
            passes(m) == /\ (a.msg = "source" => m.source = a.name)
                         /\ (a.ok => m.name \in ledger)
            want == SelectSeq(modules, passes)
            got == EvsOf("println")
        IN  /\ Len(got) = Len(want)
            /\ \A i \in 1..Len(got) :
                  /\ got[i].name = want[i].name
                  /\ got[i].ver = want[i].version
                  /\ got[i].ok = (want[i].name \in ledger)

\* Both filters were given, two modules are installed and both are marked
\* outdated, and only the one of the source asked for was printed.
C11_Witness ==
    /\ cmd = "list" /\ pc = "done" /\ result = "ok"
    /\ log[1].msg = "source" /\ log[1].ok
    /\ Len(modules) = 2
    /\ \A k \in DOMAIN modules : modules[k].name \in ledger
    /\ Len(EvsOf("println")) = 1
    /\ EvsOf("println")[1].ok

(***************************************************************************)
(* C12: the list command is read-only: for every filter combination its    *)
(* step leaves the engine's module list, the selection, the module cache   *)
(* and the persisted ledger unchanged, the AutoUpdater it holds is the     *)
(* ledger as loaded, and it makes no updated() and no save() call.         *)
(***************************************************************************)
C12_ListReadOnly ==
    [][(pc = "idle" /\ cmd' = "list") =>
          /\ UNCHANGED <<modules, selected, cache, ledger>>
          /\ autoupdate' \in {autoupdate, ledger}
          /\ \A i \in DOMAIN log' : log'[i].op \in {"list", "load", "println"}]_vars

\* A list --outdated has printed a module while a module is selected and
\* the ledger marks a module that is not installed.
C12_Witness ==
    /\ cmd = "list" /\ pc = "done" /\ result = "ok"
    /\ log[1].ok
    /\ Len(EvsOf("println")) > 0
    /\ selected # <<>>
    /\ \E n \in ledger : \A k \in DOMAIN modules : modules[k].name # n

(***************************************************************************)
(* C13: when the arguments do not parse, run() returns an error without    *)
(* side effects: no call at all is made (no ledger load or save, registry  *)
(* query, install, engine reload or cache reload), and the module list,    *)
(* the selection, the cache and the ledger are unchanged.                  *)
(***************************************************************************)
C13_ParseErrorNoEffect ==
    [][(pc = "idle" /\ cmd' = "usage") =>
          /\ UNCHANGED <<modules, selected, cache, ledger, autoupdate>>
          /\ log' = <<>>
          /\ pc' = "done"
          /\ result' = "err"]_vars

\* A command failed to parse while a module was selected and the ledger
\* marked a module outdated.
C13_Witness ==
    /\ cmd = "usage" /\ pc = "done" /\ result = "err"
    /\ selected # <<>>
    /\ ledger # {}

(***************************************************************************)
(* C14: a failure of reload_modules is fatal: the reload command returns   *)
(* an error, and so does the install or update command whose implicit      *)
(* reload failed, also when every per-module step and the ledger save      *)
(* succeeded.                                                              *)
(***************************************************************************)
C14_ReloadFailureFatal ==
    (\E i \in DOMAIN log : log[i].op = "reload_modules" /\ ~log[i].ok) =>
        (pc = "done" /\ result = "err")

\* An update reinstalled a module, no module failed, the ledger was saved,
\* and the reload that followed failed.
C14_Witness ==
    /\ cmd = "update" /\ pc = "done"
    /\ \E i \in DOMAIN log : log[i].op = "run_install" /\ log[i].ok
    /\ \A i \in DOMAIN log : log[i].op # "error"
    /\ HasOk("save", "")
    /\ \E i \in DOMAIN log : log[i].op = "reload_modules" /\ ~log[i].ok
    /\ result = "err"

(***************************************************************************)
(* C15: during update, every module whose update() call failed gets        *)
(* exactly one "Failed to update" message that names it and carries the    *)
(* error; every module that was reinstalled gets exactly one "Updated"     *)
(* message that names it with its installed and its latest version; no     *)
(* other module gets either message, and no module gets both.              *)
(***************************************************************************)
C15_OneMessagePerOutcome ==
    cmd = "update" =>
        \A k \in DOMAIN batch :
            LET n == batch[k].name
                errs == SelectSeq(log, LAMBDA e : e.op = "error" /\ e.name = n)
                oks == SelectSeq(log, LAMBDA e : e.op = "success" /\ e.name = n)
                failed == SelectSeq(log, LAMBDA e : e.op = "update" /\ e.name = n /\ ~e.ok)
                inst == SelectSeq(log, LAMBDA e : e.op = "run_install" /\ e.name = n /\ e.ok)
            IN  /\ Len(errs) = Len(failed)
                /\ Len(errs) <= 1
                /\ Len(errs) = 1 => errs[1].msg = failed[1].msg /\ errs[1].msg # ""
                /\ Len(oks) = Len(inst)
                /\ Len(oks) <= 1
                /\ Len(oks) = 1 =>
                      /\ oks[1].old = batch[k].version
                      /\ oks[1].ver = inst[1].ver
                      /\ oks[1].ver # NoVersion
                /\ Len(errs) + Len(oks) <= 1

\* One module failed and was reported, the other was reinstalled and
\* announced with its two versions.
C15_Witness ==
    /\ cmd = "update" /\ Len(batch) = 2
    /\ \E i, j \in DOMAIN log :
          /\ log[i].op = "error" /\ log[i].name = batch[1].name
          /\ log[i].msg = "install error"
          /\ log[j].op = "success" /\ log[j].name = batch[2].name
          /\ log[j].old = batch[2].version /\ log[j].old # log[j].ver

(***************************************************************************)
(* C16: the reload that install and update trigger is a step of the Reload *)
(* Coordinator from the same state: like `mod reload` it leaves, for the   *)
(* module list the engine rebuilt, the cache listing that set and the      *)
(* selection re-resolved by canonical name (empty when the name is gone or *)
(* nothing was selected), and on an engine failure an empty selection, the *)
(* old cache and an error.  In particular, when the selected module is     *)
(* reinstalled by update and exists after the rebuild, it is selected      *)
(* after the command.                                                      *)
(***************************************************************************)
CoordinatorStep ==
    LET rok == \E i \in DOMAIN log' :
                   i > Len(log) /\ log'[i].op = "reload_modules" /\ log'[i].ok
        same == IF selected = <<>> THEN {}
                ELSE {k \in DOMAIN modules' : modules'[k].name = selected[1].name}
    IN  /\ pc' = "done"
        /\ UNCHANGED ledger
        /\ IF rok
           THEN /\ cache' = [k \in DOMAIN modules' |-> modules'[k].name]
                /\ IF same = {} THEN selected' = <<>>
                   ELSE \E k \in same : selected' = <<modules'[k]>>
                /\ result' = "ok"
           ELSE /\ cache' = cache
                /\ selected' = <<>>
                /\ result' = "err"

C16_ImplicitReloadIsReload ==
    /\ [][(pc = "idle" /\ cmd' = "reload") => CoordinatorStep]_vars
    /\ [][(pc = "reload") => CoordinatorStep]_vars
    /\ [](\A t \in DOMAIN log :
            (/\ cmd = "update" /\ pc = "done" /\ result = "ok"
             /\ log[t].op = "take_module" /\ log[t].ok
             /\ HasOk("run_install", log[t].name)
             /\ \E k \in DOMAIN modules : modules[k].name = log[t].name)
            => (selected # <<>> /\ selected[1].name = log[t].name
                /\ \E k \in DOMAIN modules : modules[k] = selected[1]))

\* The selected module was reinstalled by update, came back from the
\* rebuild with another version, and is selected.
C16_Witness ==
    /\ cmd = "update" /\ pc = "done" /\ result = "ok"
    /\ \E t \in DOMAIN log :
          /\ log[t].op = "take_module" /\ log[t].ok
          /\ HasOk("run_install", log[t].name)
          /\ selected # <<>>
          /\ selected[1].name = log[t].name
          /\ selected[1].version # log[t].ver

(***************************************************************************)
(* C17: a ledger load failure and a ledger save failure are fatal to the   *)
(* update command: after a failed load the command has returned an error   *)
(* and made no registry query, no install and no save; after a failed save *)
(* the command has returned an error, whatever the modules' outcomes, which*)
(* were only reported.                                                     *)
(***************************************************************************)
C17_LedgerFailureFatal ==
    cmd = "update" =>
        /\ (\E i \in DOMAIN log : log[i].op = "load" /\ ~log[i].ok) =>
              /\ pc = "done" /\ result = "err"
              /\ \A i \in DOMAIN log : log[i].op \in {"client_new", "load"}
        /\ (\E i \in DOMAIN log : log[i].op = "save" /\ ~log[i].ok) =>
              /\ pc = "done" /\ result = "err"
              /\ log[Len(log)].op = "save"

\* One module failed and was reported, another was updated, and the save
\* failed: the command returned an error.
C17_Witness ==
    /\ cmd = "update" /\ pc = "done" /\ result = "err"
    /\ \E i \in DOMAIN log : log[i].op = "error"
    /\ \E i \in DOMAIN log : log[i].op = "updated"
    /\ \E i \in DOMAIN log : log[i].op = "save" /\ ~log[i].ok

(***************************************************************************)
(* C18: within one update command the operations are strictly ordered: the *)
(* client and the ledger load come first, then the modules one after the   *)
(* other in list order, each with its call, its registry query, its        *)
(* install, its notice and its ledger mark or failure report in that order *)
(* and with no operation of another module in between, then the ledger     *)
(* save, then the reload.  Every operation is in the log with its outcome  *)
(* before the next one starts.                                             *)
(***************************************************************************)
Phase(e) ==
    CASE e.op = "client_new" -> 0
      [] e.op = "load" -> 1
      [] e.op \in LoopOps -> 2
      [] e.op = "save" -> 3
      [] OTHER -> 4

Rank(e) ==
    CASE e.op \in {"update", "skip", "take_module"} -> 1
      [] e.op \in {"query_module", "reload_modules"} -> 2
      [] e.op \in {"run_install", "reload_module_cache"} -> 3
      [] e.op \in {"success", "get"} -> 4
      [] OTHER -> 5

PosInBatch(e) ==
    IF Phase(e) = 2 THEN CHOOSE k \in DOMAIN batch : batch[k].name = e.name ELSE 0

\* e comes strictly before f in the order of the command: by phase, then by
\* the module's place in the list, then by the operation's place in the
\* module's (or the reload's) sequence.
Before(e, f) ==
    \/ Phase(e) < Phase(f)
    \/ /\ Phase(e) = Phase(f)
       /\ \/ PosInBatch(e) < PosInBatch(f)
          \/ PosInBatch(e) = PosInBatch(f) /\ Rank(e) < Rank(f)

C18_StrictOrder ==
    cmd = "update" =>
        \A i \in 1..(Len(log) - 1) : Before(log[i], log[i + 1])

\* Two modules were reinstalled one after the other, the ledger was saved
\* and the reload ran.
C18_Witness ==
    /\ cmd = "update" /\ pc = "done" /\ Len(batch) = 2
    /\ HasOk("run_install", batch[1].name)
    /\ HasOk("run_install", batch[2].name)
    /\ HasOk("save", "")
    /\ Has("reload_modules", "")

(***************************************************************************)
(* C19: the reload takes the selection before it asks the engine to        *)
(* rebuild: when reload_modules fails, the command returns an error with   *)
(* the selection empty, whatever was selected, and with the module cache   *)
(* as it was (no cache reload).                                            *)
(***************************************************************************)
C19_FailedReloadClearsSelection ==
    [][(/\ pc \in {"idle", "reload"}
        /\ \E i \in DOMAIN log' :
              i > Len(log) /\ log'[i].op = "reload_modules" /\ ~log'[i].ok)
       => /\ selected' = <<>>
          /\ cache' = cache
          /\ \A i \in DOMAIN log' : log'[i].op # "reload_module_cache"
          /\ result' = "err"
          /\ pc' = "done"]_vars

\* reload_modules failed and left the engine's set as it was; the module
\* that was selected is still there, but nothing is selected any more.
C19_Witness ==
    /\ pc = "done" /\ result = "err"
    /\ \E i \in DOMAIN log : log[i].op = "reload_modules" /\ ~log[i].ok
    /\ selected = <<>>
    /\ \E t \in DOMAIN log :
          /\ log[t].op = "take_module" /\ log[t].ok
          /\ \E k \in DOMAIN modules :
                modules[k].name = log[t].name /\ modules[k].version = log[t].ver

(***************************************************************************)
(* C20: the update command only clears outdated marks: the AutoUpdater it  *)
(* holds is always the loaded ledger without the non-private modules whose *)
(* update() call returned Ok so far; the persisted ledger changes only at  *)
(* the save, where a successful save leaves the old ledger without exactly *)
(* those names and a failed one leaves it as it was; so the marks after    *)
(* the command are a subset of the marks before it, and the entries of     *)
(* names that are not in the engine's list are unchanged.                  *)
(***************************************************************************)
Succeeded(lg) ==
    {batch[k].name : k \in {k \in DOMAIN batch :
        /\ ~batch[k].private
        /\ \E i \in DOMAIN lg :
              lg[i].op = "update" /\ lg[i].name = batch[k].name /\ lg[i].ok}}

C20_UpdateOnlyClearsMarks ==
    /\ []((InBatch /\ pc = "update_loop") => autoupdate = ledger \ Succeeded(log))
    /\ [][(cmd' = "update") =>
             /\ ledger' \subseteq ledger
             /\ IF pc = "update_loop" /\ pc' # "update_loop"
                THEN IF HasOk("save", "")'
                     THEN ledger' = ledger \ Succeeded(log)
                     ELSE ledger' = ledger
                ELSE ledger' = ledger]_vars

\* The loop is over: the mark of a module whose update succeeded is gone,
\* the mark of a name that is not installed is still there.
C20_Witness ==
    /\ InBatch /\ pc = "update_loop" /\ idx > Len(batch)
    /\ \E n \in ledger : n \notin autoupdate /\ HasOk("update", n)
    /\ \E n \in autoupdate : \A k \in DOMAIN batch : batch[k].name # n

====
